---- MODULE Spec2Model ----
(***************************************************************************)
(* KerasAdversarialEmbedding (art/estimators/embedding/keras.py): the      *)
(* estimator's construction, fit, predict, get_training_data and           *)
(* class_gradient as a state machine over one estimator instance.          *)
(*                                                                         *)
(* Arrays live in a heap of named numpy buffers, so that copying and       *)
(* aliasing are different things.  A data row is one number, a label row   *)
(* is a tuple over the classes, probabilities are integers in units of     *)
(* 1/ProbScale and uniform draws are integers in units of 1/DrawScale.     *)
(***************************************************************************)
EXTENDS Integers, Sequences, FiniteSets, TLC

\* ---------------------------------------------------------------- bounds
MaxN == 2          \* largest training batch
MaxPredict == 1    \* largest prediction batch
DrawScale == 2     \* uniform draws are k/DrawScale, k in 0..DrawScale-1
ProbScale == 2     \* softmax outputs are k/ProbScale, k in 0..ProbScale
NumLayers == 6     \* layers of the base model

\* ------------------------------------------------------------- value sets
DataVals == {0, 1}                    \* a clean data row
PoisonVals == {1, 2}                  \* a row the backdoor transform may return
LabelRows == {<<1, 0>>, <<0, 1>>}     \* one-hot label rows over two classes
GradVals == {"g0", "g1"}              \* arrays the base gradient may return
Addr == {"x", "y", "train_data", "train_labels"}

VARIABLES
    target,            \* self.target
    pp_poison,         \* self.pp_poison, in units of 1/DrawScale
    verbose,           \* self.verbose
    detect_threshold,  \* self.detect_threshold, in units of 1/ProbScale
    feature_layer,     \* self.feature_layer, the constructor's argument
    discriminator_src, \* index of the layer whose output feeds the discriminator
    heap,              \* numpy buffers: the caller's x and y, fit's copies
    self_train_data,   \* self.train_data: Unset, or Attr(a buffer address)
    self_train_labels, \* self.train_labels: Unset, or Attr(a buffer address)
    self_is_backdoor,  \* self.is_backdoor: Unset, or Attr(the indicator rows)
    last_fit,          \* history of the most recent fit call
    last_call          \* the most recent call and what the caller saw of it

vars == <<target, pp_poison, verbose, detect_threshold, feature_layer,
          discriminator_src, heap, self_train_data, self_train_labels,
          self_is_backdoor, last_fit, last_call>>

config == <<target, pp_poison, verbose, detect_threshold, feature_layer,
            discriminator_src>>

stored == <<heap, self_train_data, self_train_labels, self_is_backdoor, last_fit>>

\* ---------------------------------------------------------------- helpers
\* An instance attribute: not assigned yet, or holding a value.
Unset == [set |-> FALSE]
Attr(v) == [set |-> TRUE, val |-> v]

Range(s) == {s[i] : i \in DOMAIN s}

\* The indices of a boolean vector that hold TRUE, in increasing order
\* (numpy boolean-mask indexing of np.arange).
RECURSIVE MaskIdxs(_, _)
MaskIdxs(mask, n) ==
    IF n = 0 THEN <<>>
    ELSE IF mask[n] THEN Append(MaskIdxs(mask, n - 1), n)
         ELSE MaskIdxs(mask, n - 1)

\* Python's sum() of a boolean vector.
NumTrue(mask) == Len(MaskIdxs(mask, Len(mask)))

\* ------------------------------------------------------------ construction
\* Line 142: the sub-model feeding the discriminator is built from
\* self.model.layers[5].output.
HardCodedFeatureLayer == 5

\* __init__, lines 140-144: the index of the layer whose activations the
\* discriminator head reads, given the feature_layer argument.
FeatureLayerOutput(fl) == HardCodedFeatureLayer

\* ---------------------------------------------------------------------- fit
\* np.all(y == self.target, axis=1) for one row.
RowAllEqual(row, t) == \A c \in DOMAIN row : row[c] = t[c]

NotTargetEveryRow(y, t) == [i \in 1..Len(y) |-> TRUE]

\* Line 198: not_target = np.logical_not(np.all(y == self.target, axis=1)).
NotTarget(y, t) == [i \in 1..Len(y) |-> ~RowAllEqual(y[i], t)]

DrawSelectsInclusive(u, pp) == u <= pp

\* Line 199: one uniform draw u in [0, 1) selects when u < self.pp_poison.
DrawSelects(u, pp) == u < pp

\* Lines 197-199: selected_indices starts all False; the positions where
\* not_target holds receive, in order, the comparisons of the draws.
SelectedIndices(not_target, draws, pp) ==
    [i \in 1..Len(not_target) |->
        IF not_target[i] THEN DrawSelects(draws[NumTrue(SubSeq(not_target, 1, i))], pp)
        ELSE FALSE]

NpCopyAlias(h, src, dst) == [heap |-> h, ref |-> src]

\* Lines 201-202: np.copy allocates a new buffer holding the source's rows.
NpCopy(h, src, dst) == [heap |-> [h EXCEPT ![dst] = h[src]], ref |-> dst]

\* Line 205: train_data[selected_indices], a new array of the selected rows.
ToBePoisoned(rows, poison_idxs) ==
    [k \in 1..Len(poison_idxs) |-> rows[poison_idxs[k]]]

\* backdoor.poison(x, y=target, broadcast=True): a poisoned batch as long as
\* x (its rows are the transform's own: pdata) with the target label
\* broadcast over it.
BackdoorPoison(x_in, y, pdata) ==
    [data |-> pdata, labels |-> [k \in 1..Len(x_in) |-> y]]

PoisonLoopFirstOnly(h, td, tl, poison_idxs, poison_data, poison_labels, k) ==
    IF Len(poison_idxs) = 0 THEN h
    ELSE [h EXCEPT ![td][poison_idxs[1]] = poison_data[1],
                   ![tl][poison_idxs[1]] = poison_labels[1]]

\* Lines 209-211: for i, idx in enumerate(poison_idxs), entries k..end.
RECURSIVE PoisonLoop(_, _, _, _, _, _, _)
PoisonLoop(h, td, tl, poison_idxs, poison_data, poison_labels, k) ==
    IF k > Len(poison_idxs) THEN h
    ELSE LET h1 == [h EXCEPT ![td][poison_idxs[k]] = poison_data[k]]
             h2 == [h1 EXCEPT ![tl][poison_idxs[k]] = poison_labels[k]]
         IN PoisonLoop(h2, td, tl, poison_idxs, poison_data, poison_labels, k + 1)

\* np.eye(2)
Eye2 == <<<<1, 0>>, <<0, 1>>>>

IsBackdoorSwapped(n, poison_idxs) ==
    [i \in 1..n |-> Eye2[(IF i \in Range(poison_idxs) THEN 0 ELSE 1) + 1]]

\* Lines 213-214: np.isin(np.arange(len(x)), poison_idxs).astype(int), then
\* row b_idx of the result is np.eye(2)[is_backdoor[b_idx]].
IsBackdoor(n, poison_idxs) ==
    [i \in 1..n |-> Eye2[(IF i \in Range(poison_idxs) THEN 1 ELSE 0) + 1]]

StoreFieldsKeepIndicator(old, new) == <<new[1], new[2], old[3]>>

\* Line 217: self.train_data, self.train_labels, self.is_backdoor = ...
StoreFields(old, new) == new

\* Lines 197-217 on the heap h, where the caller's arrays are at xa and ya:
\* the heap and the fields afterwards, and the locals of the call.
FitBody(h, xa, ya, t, pp, draws, pdata, old_fields) ==
    LET n                == Len(h[xa])
        not_target       == NotTarget(h[ya], t)
        selected_indices == SelectedIndices(not_target, draws, pp)
        c1               == NpCopy(h, xa, "train_data")
        c2               == NpCopy(c1.heap, ya, "train_labels")
        train_data       == c1.ref
        train_labels     == c2.ref
        poison_idxs      == MaskIdxs(selected_indices, n)
        to_be_poisoned   == ToBePoisoned(c2.heap[train_data], poison_idxs)
        out              == BackdoorPoison(to_be_poisoned, t, pdata)
        is_backdoor      == IsBackdoor(n, poison_idxs)
    IN [heap             |-> PoisonLoop(c2.heap, train_data, train_labels,
                                        poison_idxs, out.data, out.labels, 1),
        fields           |-> StoreFields(old_fields,
                                         <<Attr(train_data), Attr(train_labels),
                                           Attr(is_backdoor)>>),
        train_data       |-> train_data,
        train_labels     |-> train_labels,
        is_backdoor      |-> is_backdoor,
        selected_indices |-> selected_indices,
        backdoor_calls   |-> <<[x |-> to_be_poisoned, y |-> t, broadcast |-> TRUE]>>,
        poison_data      |-> out.data,
        poison_labels    |-> out.labels]

\* Line 220: the arguments of self.embed_model.fit, read from the heap the
\* body left.
TrainedOn(r) ==
    [x |-> r.heap[r.train_data], y |-> <<r.heap[r.train_labels], r.is_backdoor>>]

\* The vectors np.random.uniform(size=k) can return, one per mask they can
\* produce: draws that compare alike with pp_poison lead to the same call.
DrawVectors(not_target, pp) ==
    LET all   == [1..NumTrue(not_target) -> 0..(DrawScale - 1)]
        masks == {SelectedIndices(not_target, d, pp) : d \in all}
    IN {CHOOSE d \in all : SelectedIndices(not_target, d, pp) = m : m \in masks}

\* fit(x, y): the caller's arrays are the buffers "x" and "y".
Fit ==
    \E n \in 1..MaxN :
    \E ys \in [1..n -> LabelRows] :
    \E draws \in DrawVectors(NotTarget(ys, target), pp_poison) :
    \E pdata \in [1..NumTrue(SelectedIndices(NotTarget(ys, target), draws, pp_poison))
                   -> PoisonVals] :
    \E xs \in [1..n -> DataVals] :
    \E r \in {FitBody([heap EXCEPT !["x"] = xs, !["y"] = ys], "x", "y",
                       target, pp_poison, draws, pdata,
                       <<self_train_data, self_train_labels, self_is_backdoor>>)} :
           /\ heap' = r.heap
           /\ self_train_data' = r.fields[1]
           /\ self_train_labels' = r.fields[2]
           /\ self_is_backdoor' = r.fields[3]
           /\ last_fit' = [called           |-> TRUE,
                           x_arg            |-> xs,
                           y_arg            |-> ys,
                           selected_indices |-> r.selected_indices,
                           backdoor_calls   |-> r.backdoor_calls,
                           poison_data      |-> r.poison_data,
                           poison_labels    |-> r.poison_labels,
                           trained          |-> TrainedOn(r)]
           /\ last_call' = [op |-> "fit", out |-> [status |-> "ok"]]
           /\ UNCHANGED config

\* ------------------------------------------------------------------ predict
\* The rows a two-way softmax can produce: <<clean, poisoned>>, summing to 1.
SoftmaxRows == {<<ProbScale - p, p>> : p \in 0..ProbScale}

\* Line 237: backdoor_predictions > self.detect_threshold, elementwise.
SuspectedBackdoors(backdoor_predictions, thr) ==
    [i \in 1..Len(backdoor_predictions) |->
        [c \in 1..2 |-> backdoor_predictions[i][c] > thr]]

\* Line 238: np.any over the whole mask.
NpAny(mask) == \E i \in 1..Len(mask) : \E c \in 1..2 : mask[i][c]

\* Line 239: np.sum over the whole mask.
NpSum(mask) == Cardinality({<<i, c>> \in (1..Len(mask)) \X (1..2) : mask[i][c]})

\* Line 242: np.arange(len(backdoor_predictions))[suspected_backdoors].  numpy
\* refuses a boolean mask of more dimensions than the indexed array; a mask of
\* one dimension picks the positions that hold True.
ArangeIndexedBy(n, mask, mask_ndim) ==
    IF mask_ndim > 1 THEN [status |-> "IndexError"]
    ELSE [status |-> "ok", value |-> MaskIdxs(mask, n)]

\* self._apply_postprocessing(preds, fit=False) with no postprocessing defences.
ApplyPostprocessing(preds) == preds

\* Lines 233-246, given what embed_model.predict returned.  The log holds the
\* logger.warning calls made, in order.
PredictBody(verb, thr, task_predictions, backdoor_predictions) ==
    LET suspected_backdoors == SuspectedBackdoors(backdoor_predictions, thr)
        indices == ArangeIndexedBy(Len(backdoor_predictions), suspected_backdoors, 2)
        found   == [msg |-> "Found suspected backdoors", count |-> NpSum(suspected_backdoors)]
        header  == [msg |-> "Suspected indices:"]
        ok      == [status |-> "ok", result |-> ApplyPostprocessing(task_predictions)]
    IN IF verb /\ NpAny(suspected_backdoors)
       THEN IF indices.status = "ok"
            THEN [ok EXCEPT !.log = <<found, header,
                                      [msg |-> "indices", idxs |-> indices.value]>>]
            ELSE [status |-> indices.status, log |-> <<found, header>>]
       ELSE [status |-> "ok", result |-> ApplyPostprocessing(task_predictions),
             log |-> <<>>]

Predict ==
    \E n \in 1..MaxPredict :
    \E task \in [1..n -> LabelRows], bd \in [1..n -> SoftmaxRows] :
        /\ last_call' = [op |-> "predict",
                         task_predictions |-> task,
                         backdoor_predictions |-> bd,
                         out |-> PredictBody(verbose, detect_threshold, task, bd)]
        /\ UNCHANGED <<config, stored>>

\* -------------------------------------------------------- get_training_data
\* Line 253: return self.train_data, self.train_labels, self.is_backdoor; an
\* attribute fit has not set yet raises AttributeError.
GetTrainingDataBody(h, td, tl, isb) ==
    IF ~td.set \/ ~tl.set \/ ~isb.set
    THEN [status |-> "AttributeError"]
    ELSE [status |-> "ok", result |-> <<h[td.val], h[tl.val], isb.val>>]

GetTrainingData ==
    /\ last_call' = [op |-> "get_training_data",
                     out |-> GetTrainingDataBody(heap, self_train_data,
                                                 self_train_labels, self_is_backdoor)]
    /\ UNCHANGED <<config, stored>>

\* ----------------------------------------------------------- class_gradient
\* Line 279: raise KerasClassifier.class_gradient(self, x, label, **kwargs).
\* An exception of the base call propagates; a value it returns is handed to
\* raise, and raising an array is a TypeError.
ClassGradientBody(base) ==
    IF base.status = "ok" THEN [status |-> "TypeError"]
    ELSE [status |-> base.status]

\* What KerasClassifier.class_gradient may do: return an array or raise.
BaseGradientOutcomes ==
    {[status |-> "ok", value |-> g] : g \in GradVals} \cup {[status |-> "ValueError"]}

ClassGradient ==
    \E base \in BaseGradientOutcomes :
        /\ last_call' = [op |-> "class_gradient", base |-> base,
                         out |-> ClassGradientBody(base)]
        /\ UNCHANGED <<config, stored>>

\* ------------------------------------------------------------ specification
Init ==
    /\ target \in LabelRows
    /\ pp_poison \in 0..DrawScale
    /\ verbose \in BOOLEAN
    /\ detect_threshold \in 1..(ProbScale - 1)
    /\ feature_layer \in {0, HardCodedFeatureLayer, NumLayers - 1}
    /\ discriminator_src = FeatureLayerOutput(feature_layer)
    /\ heap = [a \in Addr |-> <<>>]
    /\ self_train_data = Unset
    /\ self_train_labels = Unset
    /\ self_is_backdoor = Unset
    /\ last_fit = [called |-> FALSE]
    /\ last_call = [op |-> "__init__"]

Next == Fit \/ Predict \/ GetTrainingData \/ ClassGradient

Spec == Init /\ [][Next]_vars

\* The training lifecycle on its own: an estimator constructed with the
\* defaults for what fit never reads (verbose=False, line 74; a
\* detect_threshold below 1, line 75; the feature layer the code uses), on
\* which only fit and get_training_data are called.
InitFit ==
    /\ Init
    /\ verbose = FALSE
    /\ detect_threshold = ProbScale - 1
    /\ feature_layer = HardCodedFeatureLayer

NextFit == Fit \/ GetTrainingData

FitSpec == InitFit /\ [][NextFit]_vars

\* ------------------------------------------------------------------ claims
\* What the estimator holds after a fit: the rows behind self.train_data and
\* self.train_labels, and self.is_backdoor.
StoredSet == self_train_data.set /\ self_train_labels.set /\ self_is_backdoor.set
StoredData == heap[self_train_data.val]
StoredLabels == heap[self_train_labels.val]
StoredIndicator == self_is_backdoor.val

NotPoisonedRow == <<1, 0>>
PoisonedRow == <<0, 1>>

\* The triple the most recent fit built (lines 201-214) and handed on, as it
\* was when the call passed it to the combined model's training.
Built == <<last_fit.trained.x, last_fit.trained.y[1], last_fit.trained.y[2]>>

FitN == Len(last_fit.x_arg)
IsTargetRow(i) == last_fit.y_arg[i] = target
IsSelected(i) == last_fit.selected_indices[i]
SelectedSet == {i \in 1..FitN : IsSelected(i)}

\* The members of a set of indices in increasing order.
Increasing(S) ==
    CHOOSE s \in [1..Cardinality(S) -> S] :
        \A a, b \in 1..Cardinality(S) : a < b => s[a] < s[b]

\* C1: after every fit, a sample whose label row equals the target label is
\* not in the poison mask, its stored data and label rows are the caller's
\* rows, and its stored indicator says "not poisoned".
C1_TargetRowsNeverPoisoned ==
    last_fit.called =>
        /\ StoredSet
        /\ \A i \in 1..FitN :
              IsTargetRow(i) =>
                  /\ ~IsSelected(i)
                  /\ StoredLabels[i] = last_fit.y_arg[i]
                  /\ StoredData[i] = last_fit.x_arg[i]
                  /\ StoredIndicator[i] = NotPoisonedRow

\* C1 witness: a fit on a batch that holds a target-labelled row beside a row
\* that was selected and poisoned.
C1_Witness ==
    /\ last_fit.called
    /\ \E i, j \in 1..FitN : IsTargetRow(i) /\ IsSelected(j)

\* C2: predict returns normally, and returns what it returns with
\* verbose=False on the same model outputs, whatever the discriminator says.
C2_VerboseIsObservational ==
    last_call.op = "predict" =>
        /\ last_call.out.status = "ok"
        /\ last_call.out.result =
              PredictBody(FALSE, detect_threshold, last_call.task_predictions,
                          last_call.backdoor_predictions).result

\* C3: after every fit, the caller's x and y hold the rows they held when
\* they were passed.
C3_CallerArraysUntouched ==
    last_fit.called =>
        /\ heap["x"] = last_fit.x_arg
        /\ heap["y"] = last_fit.y_arg

\* C3 witness: a fit that overwrote a row of its copies with a different
\* data value and a different label.
C3_Witness ==
    /\ last_fit.called
    /\ StoredSet
    /\ \E i \in 1..FitN :
          /\ StoredData[i] # last_fit.x_arg[i]
          /\ StoredLabels[i] # last_fit.y_arg[i]

\* C4: once fit has been called, the three stored fields are the triple the
\* most recent fit built, each with one row per sample of that call, and
\* get_training_data returns exactly that triple.
C4_TrainingDataIsLastFit ==
    last_fit.called =>
        /\ StoredSet
        /\ <<StoredData, StoredLabels, StoredIndicator>> = Built
        /\ Len(StoredData) = FitN
        /\ Len(StoredLabels) = FitN
        /\ Len(StoredIndicator) = FitN
        /\ last_call.op = "get_training_data" =>
              /\ last_call.out.status = "ok"
              /\ last_call.out.result = Built

\* C4 witness: get_training_data answering after a fit on a batch of MaxN
\* samples, one of them poisoned.
C4_Witness ==
    /\ last_fit.called
    /\ last_call.op = "get_training_data"
    /\ last_call.out.status = "ok"
    /\ FitN = MaxN
    /\ SelectedSet # {}

\* C5: with pp_poison = 0, or with every row of y equal to the target, the
\* poison mask is all-false, the stored arrays and the arrays handed to the
\* combined model's training are the caller's x and y, and every indicator
\* row says "not poisoned".
C5_NothingToPoison ==
    (last_fit.called /\ (pp_poison = 0 \/ \A i \in 1..FitN : IsTargetRow(i))) =>
        /\ SelectedSet = {}
        /\ StoredSet
        /\ StoredData = last_fit.x_arg
        /\ StoredLabels = last_fit.y_arg
        /\ StoredIndicator = [i \in 1..FitN |-> NotPoisonedRow]
        /\ last_fit.trained =
              [x |-> last_fit.x_arg,
               y |-> <<last_fit.y_arg, [i \in 1..FitN |-> NotPoisonedRow]>>]

\* C5 witness: a fit with pp_poison = 0 on a batch of MaxN samples none of
\* which carries the target label.
C5_Witness ==
    /\ last_fit.called
    /\ pp_poison = 0
    /\ FitN = MaxN
    /\ \A i \in 1..FitN : ~IsTargetRow(i)

\* C6: with pp_poison = 1 and no row of y equal to the target, every sample
\* is selected, its stored data and label rows are the transform's output for
\* it, and its indicator says "poisoned".
C6_EverythingPoisoned ==
    (last_fit.called /\ pp_poison = DrawScale /\ \A i \in 1..FitN : ~IsTargetRow(i)) =>
        /\ StoredSet
        /\ \A i \in 1..FitN :
              /\ IsSelected(i)
              /\ StoredData[i] = last_fit.poison_data[i]
              /\ StoredLabels[i] = last_fit.poison_labels[i]
              /\ StoredIndicator[i] = PoisonedRow

\* C6 witness: such a fit on MaxN samples for which the transform returned
\* two different rows.
C6_Witness ==
    /\ last_fit.called
    /\ pp_poison = DrawScale
    /\ FitN = MaxN
    /\ \A i \in 1..FitN : ~IsTargetRow(i)
    /\ last_fit.poison_data[1] # last_fit.poison_data[2]

\* C7: whenever the base classifier's class_gradient returns a value,
\* class_gradient returns that value and does not end in an error.
C7_ClassGradientReturnsBaseValue ==
    (last_call.op = "class_gradient" /\ last_call.base.status = "ok") =>
        /\ last_call.out.status = "ok"
        /\ last_call.out.result = last_call.base.value

\* C8: the sub-model feeding the discriminator reads the activations of the
\* layer the feature_layer argument designates.
C8_DiscriminatorReadsDesignatedLayer ==
    discriminator_src = feature_layer

\* C9: every fit calls the backdoor transform once, on the selected rows in
\* increasing index order with the target label broadcast; the k-th selected
\* sample's stored rows are the k-th rows of the transform's output, every
\* other stored row is the caller's, and every indicator row is one-hot and
\* says "poisoned" exactly for the selected samples.
C9_PoisonedRowsWrittenInOrder ==
    last_fit.called =>
        LET idxs == Increasing(SelectedSet)
        IN /\ StoredSet
           /\ Len(last_fit.backdoor_calls) = 1
           /\ last_fit.backdoor_calls[1] =
                 [x |-> [k \in 1..Len(idxs) |-> last_fit.x_arg[idxs[k]]],
                  y |-> target, broadcast |-> TRUE]
           /\ \A k \in 1..Len(idxs) :
                 /\ StoredData[idxs[k]] = last_fit.poison_data[k]
                 /\ StoredLabels[idxs[k]] = last_fit.poison_labels[k]
           /\ \A i \in (1..FitN) \ SelectedSet :
                 /\ StoredData[i] = last_fit.x_arg[i]
                 /\ StoredLabels[i] = last_fit.y_arg[i]
           /\ \A i \in 1..FitN :
                 /\ StoredIndicator[i] \in {NotPoisonedRow, PoisonedRow}
                 /\ (StoredIndicator[i] = PoisonedRow) <=> IsSelected(i)

\* C9 witness: a fit that selected two samples with different data rows and
\* got two different rows back for them.
C9_Witness ==
    /\ last_fit.called
    /\ Cardinality(SelectedSet) = 2
    /\ last_fit.backdoor_calls[1].x[1] # last_fit.backdoor_calls[1].x[2]
    /\ last_fit.poison_data[1] # last_fit.poison_data[2]

\* C10: in verbose mode predict logs the diagnostic exactly when some
\* sample's poison probability exceeds detect_threshold, with the count and
\* the indices of exactly those samples; otherwise it logs nothing.
C10_DiagnosticListsPoisonSuspects ==
    last_call.op = "predict" =>
        LET bd        == last_call.backdoor_predictions
            suspects  == {i \in 1..Len(bd) : bd[i][2] > detect_threshold}
            log       == last_call.out.log
        IN IF verbose /\ suspects # {}
           THEN /\ Len(log) = 3
                /\ log[1].count = Cardinality(suspects)
                /\ Range(log[3].idxs) = suspects
           ELSE log = <<>>

====
